---- MODULE Spec2Model ----
(***************************************************************************)
(* Model of the i2u formatting library (src/src/fmt/mod.rs).               *)
(*                                                                         *)
(* Every function of the library is a wrapper around a formatting          *)
(* primitive (format! with a radix, a fill flag and a width; itertools'    *)
(* chunks and join).  The model computes each wrapper the way the          *)
(* primitive it calls computes it: the digit loop of the integer           *)
(* formatter, the padding step of the formatter, the UTF-8 decoding of     *)
(* chars(), the chunking and the joining.                                  *)
(*                                                                         *)
(* A rendered number is a sequence of one-character strings.  A text       *)
(* handled by chunk_join is a Rust str: a sequence of UTF-8 bytes.         *)
(***************************************************************************)
EXTENDS Integers, Sequences, FiniteSets, TLC

VARIABLES input, call, result

vars == <<input, call, result>>

\* ------------------------------------------------------------------------
\* Bounds of the model
\* ------------------------------------------------------------------------

\* Largest width parameter N tried (larger than the widest integer modelled).
MaxWidth == 18

\* Integer types of at most this many bits are enumerated in full.
FullBits == 8

\* Longest text, in characters, handed to chunk_join.
MaxTextLen == 4

\* Largest chunk_size handed to chunk_join.
MaxChunk == 3

\* ------------------------------------------------------------------------
\* Integer types and their values
\* ------------------------------------------------------------------------

RECURSIVE Pow(_, _)
Pow(b, e) == IF e = 0 THEN 1 ELSE b * Pow(b, e - 1)

Max(a, b) == IF a >= b THEN a ELSE b

Min(a, b) == IF a <= b THEN a ELSE b

\* The integer types modelled: i8, u8, i16, u16.
IntTypes ==
    { [signed |-> s, bits |-> w] : s \in BOOLEAN, w \in {8, 16} }

MinOf(ty) == IF ty.signed THEN 0 - Pow(2, ty.bits - 1) ELSE 0

MaxOf(ty) == IF ty.signed THEN Pow(2, ty.bits - 1) - 1 ELSE Pow(2, ty.bits) - 1

\* The values of a type that are tried: all of them for a narrow type, the
\* values within 1 of a power of two (of either sign) and of the type's
\* limits for a wide one.
Values(ty) ==
    IF ty.bits <= FullBits
    THEN MinOf(ty)..MaxOf(ty)
    ELSE { v \in { s * Pow(2, k) + d : s \in {0 - 1, 1}, k \in 0..ty.bits, d \in (0 - 1)..1 }
             : v >= MinOf(ty) /\ v <= MaxOf(ty) }

Widths == 0..MaxWidth

\* ------------------------------------------------------------------------
\* The integer formatter (format! with b, o, x or X)
\* ------------------------------------------------------------------------

\* `*self as uN`: the signed value reinterpreted as the unsigned integer of
\* the same width, which is what the radix formatters of a signed type format.
as_unsigned(ty, n) == n % Pow(2, ty.bits)

LowerDigits ==
    <<"0", "1", "2", "3", "4", "5", "6", "7", "8", "9", "a", "b", "c", "d", "e", "f">>

UpperDigits ==
    <<"0", "1", "2", "3", "4", "5", "6", "7", "8", "9", "A", "B", "C", "D", "E", "F">>

\* The formats the library uses: 'b', 'o', 'x', 'X'.
Base(fmt) == CASE fmt = "b" -> 2 [] fmt = "o" -> 8 [] fmt = "x" -> 16 [] fmt = "X" -> 16

digit(fmt, d) == IF fmt = "X" THEN UpperDigits[d + 1] ELSE LowerDigits[d + 1]

\* The digit loop: the least significant digit is written first, at the end
\* of the buffer, and the loop stops when the quotient is zero (so 0 gives "0").
RECURSIVE fmt_digits(_, _, _)
fmt_digits(fmt, x, buf) ==
    LET n == x % Base(fmt)
        q == x \div Base(fmt)
        b == <<digit(fmt, n)>> \o buf
    IN  IF q = 0 THEN b ELSE fmt_digits(fmt, q, b)

Fill(c, k) == [i \in 1..k |-> c]

\* The formatter's padding step.  zero is the '0' flag, width the width
\* argument (-1: none given).  The radix formats pass a non-negative value and
\* the library never sets '#' or '+', so no sign and no prefix is written;
\* the default alignment of a number is to the right.
pad_integral(zero, width, buf) ==
    IF width < 0 \/ Len(buf) >= width
    THEN buf
    ELSE Fill(IF zero THEN "0" ELSE " ", width - Len(buf)) \o buf

\* format!("{:<flags><width><fmt>}", value)
format_int(fmt, zero, width, ty, n) ==
    pad_integral(zero, width, fmt_digits(fmt, as_unsigned(ty, n), <<>>))

\* ------------------------------------------------------------------------
\* The radix functions of the library
\* ------------------------------------------------------------------------

\* octal rendering a negative value as a sign and the digits of its magnitude.
octal_signed(ty, o) ==
    IF o < 0 THEN <<"-">> \o fmt_digits("o", 0 - o, <<>>) ELSE fmt_digits("o", o, <<>>)

octal(ty, o) == format_int("o", FALSE, 0 - 1, ty, o)

\* binary with the '#' flag, which writes the 0b prefix.
binary_prefixed(ty, b) == <<"0", "b">> \o format_int("b", FALSE, 0 - 1, ty, b)

binary(ty, b) == format_int("b", FALSE, 0 - 1, ty, b)

\* binary_zero_pad without the '0' flag.
binary_zero_pad_no_flag(N, ty, b) == format_int("b", FALSE, N, ty, b)

binary_zero_pad(N, ty, b) == format_int("b", TRUE, N, ty, b)

\* binary_pad with the '0' flag.
binary_pad_zero_flag(N, ty, b) == format_int("b", TRUE, N, ty, b)

binary_pad(N, ty, b) == format_int("b", FALSE, N, ty, b)

lower_hex_pad(N, ty, h) == format_int("x", FALSE, N, ty, h)

\* upper_hex_pad formatting with x instead of X.
upper_hex_pad_lower(N, ty, h) == format_int("x", FALSE, N, ty, h)

upper_hex_pad(N, ty, h) == format_int("X", FALSE, N, ty, h)

lower_hex_zeropad(N, ty, h) == format_int("x", TRUE, N, ty, h)

upper_hex_zeropad(N, ty, h) == format_int("X", TRUE, N, ty, h)

\* ------------------------------------------------------------------------
\* Texts: a str is a sequence of UTF-8 bytes
\* ------------------------------------------------------------------------

\* char::encode_utf8, which is how Display writes a char into a String.
encode_utf8(c) ==
    IF c < 128 THEN <<c>>
    ELSE IF c < 2048 THEN <<192 + (c \div 64), 128 + (c % 64)>>
    ELSE IF c < 65536
         THEN <<224 + (c \div 4096), 128 + ((c \div 64) % 64), 128 + (c % 64)>>
         ELSE <<240 + (c \div 262144), 128 + ((c \div 4096) % 64),
                128 + ((c \div 64) % 64), 128 + (c % 64)>>

\* String::from of a sequence of chars.
RECURSIVE str(_)
str(cs) == IF cs = <<>> THEN <<>> ELSE encode_utf8(Head(cs)) \o str(Tail(cs))

\* chars taking every byte of the str for a character.
chars_per_byte(s) == s

\* str::chars: the Unicode scalar values of a str, decoded from its bytes
\* front to back (the first byte of a character tells how many bytes follow).
RECURSIVE chars(_)
chars(s) ==
    IF s = <<>> THEN <<>>
    ELSE LET x == s[1]
         IN  IF x < 128 THEN <<x>> \o chars(SubSeq(s, 2, Len(s)))
             ELSE IF x < 224
                  THEN <<(x % 32) * 64 + (s[2] % 64)>> \o chars(SubSeq(s, 3, Len(s)))
             ELSE IF x < 240
                  THEN <<(x % 32) * 4096 + (s[2] % 64) * 64 + (s[3] % 64)>>
                       \o chars(SubSeq(s, 4, Len(s)))
             ELSE <<(x % 8) * 262144 + (s[2] % 64) * 4096 + (s[3] % 64) * 64 + (s[4] % 64)>>
                  \o chars(SubSeq(s, 5, Len(s)))

Ok(v) == [status |-> "ok", value |-> v]

Panic(where) == [status |-> "panic", at |-> where]

\* What into_iter gives over the chunks: the items in consecutive chunks of
\* size items, the last chunk holding what is left.  size is not 0 here.
RECURSIVE chunk_list(_, _)
chunk_list(items, size) ==
    IF items = <<>> THEN <<>>
    ELSE <<SubSeq(items, 1, Min(size, Len(items)))>>
         \o chunk_list(SubSeq(items, Min(size, Len(items)) + 1, Len(items)), size)

\* Itertools::chunks, the chunking primitive: it asserts size != 0 when it is
\* called, before any item is read.
chunks(items, size) ==
    IF size = 0 THEN Panic("itertools::chunks: assert size != 0")
    ELSE Ok(chunk_list(items, size))

\* Itertools::join over displayed items (each a str): nothing for no item,
\* else the first item, then sep and the item for every further item.
RECURSIVE join_rest(_, _)
join_rest(items, sep) ==
    IF items = <<>> THEN <<>>
    ELSE sep \o Head(items) \o join_rest(Tail(items), sep)

\* join writing sep after every item, the last one included.
RECURSIVE join_trailing(_, _)
join_trailing(items, sep) ==
    IF items = <<>> THEN <<>>
    ELSE Head(items) \o sep \o join_trailing(Tail(items), sep)

join(items, sep) ==
    IF items = <<>> THEN <<>> ELSE Head(items) \o join_rest(Tail(items), sep)

\* |mut chunk| chunk.join(""): the chars of one chunk displayed and joined
\* with the empty str.
chunk_to_string(chunk) ==
    join([i \in 1..Len(chunk) |-> encode_utf8(chunk[i])], <<>>)

\* The panic of chunk_join's own assert!(!separator.as_ref().is_empty()).
SeparatorAssert == Panic("chunk_join: assert !separator.is_empty()")

\* chunk_join without its assert.
chunk_join_no_assert(string, chunk_size, separator) ==
    LET groups == chunks(chars(string), chunk_size)
    IN  IF groups.status = "panic" THEN groups
        ELSE Ok(join([i \in 1..Len(groups.value) |->
                         chunk_to_string(groups.value[i])], separator))

\* chunk_join with an assert of its own on chunk_size.
chunk_join_size_checked(string, chunk_size, separator) ==
    IF Len(separator) = 0 THEN SeparatorAssert
    ELSE IF chunk_size = 0 THEN Panic("chunk_join: assert chunk_size != 0")
    ELSE LET groups == chunks(chars(string), chunk_size)
         IN  Ok(join([i \in 1..Len(groups.value) |->
                         chunk_to_string(groups.value[i])], separator))

\* chunk_join: the assert on the separator, then the chunking (a panic of the
\* primitive unwinds through chunk_join), then the two joins.
chunk_join(string, chunk_size, separator) ==
    IF Len(separator) = 0 THEN SeparatorAssert
    ELSE LET groups == chunks(chars(string), chunk_size)
         IN  IF groups.status = "panic" THEN groups
             ELSE Ok(join([i \in 1..Len(groups.value) |->
                              chunk_to_string(groups.value[i])], separator))

\* The characters texts are made of: 'F', e acute, the euro sign and an
\* emoji, of 1, 2, 3 and 4 bytes in UTF-8.
Alphabet == {70, 233, 8364, 128512}

\* "FEEDC0FFEE"
FEEDC0FFEE == <<70, 69, 69, 68, 67, 48, 70, 70, 69, 69>>

Texts ==
    { str(cs) : cs \in UNION { [1..k -> Alphabet] : k \in 0..MaxTextLen } }
        \cup {FEEDC0FFEE}

\* "", " ", ", ", "F" and the euro sign.
Separators == { <<>>, <<32>>, <<44, 32>>, <<70>>, str(<<8364>>) }

ChunkSizes == 0..MaxChunk

\* ------------------------------------------------------------------------
\* State machine: the arguments of one call are drawn, then one library
\* function that takes such arguments is applied to them
\* ------------------------------------------------------------------------

Init ==
    /\ \/ \E ty \in IntTypes : \E n \in Values(ty) :
            input = [kind |-> "int", ty |-> ty, n |-> n]
       \/ \E ty \in IntTypes : \E n \in Values(ty) : \E N \in Widths :
            input = [kind |-> "int_width", ty |-> ty, n |-> n, N |-> N]
       \/ \E t \in Texts : \E k \in ChunkSizes : \E sep \in Separators :
            input = [kind |-> "text", string |-> t, chunk_size |-> k, separator |-> sep]
    /\ call = "none"
    /\ result = [status |-> "none"]

Return(fn, r) ==
    /\ call' = fn
    /\ result' = r
    /\ UNCHANGED input

Call_octal ==
    /\ call = "none"
    /\ input.kind = "int"
    /\ Return("octal", Ok(octal(input.ty, input.n)))

Call_binary ==
    /\ call = "none"
    /\ input.kind = "int"
    /\ Return("binary", Ok(binary(input.ty, input.n)))

Call_binary_zero_pad ==
    /\ call = "none"
    /\ input.kind = "int_width"
    /\ Return("binary_zero_pad", Ok(binary_zero_pad(input.N, input.ty, input.n)))

Call_binary_pad ==
    /\ call = "none"
    /\ input.kind = "int_width"
    /\ Return("binary_pad", Ok(binary_pad(input.N, input.ty, input.n)))

Call_lower_hex_pad ==
    /\ call = "none"
    /\ input.kind = "int_width"
    /\ Return("lower_hex_pad", Ok(lower_hex_pad(input.N, input.ty, input.n)))

Call_upper_hex_pad ==
    /\ call = "none"
    /\ input.kind = "int_width"
    /\ Return("upper_hex_pad", Ok(upper_hex_pad(input.N, input.ty, input.n)))

Call_lower_hex_zeropad ==
    /\ call = "none"
    /\ input.kind = "int_width"
    /\ Return("lower_hex_zeropad", Ok(lower_hex_zeropad(input.N, input.ty, input.n)))

Call_upper_hex_zeropad ==
    /\ call = "none"
    /\ input.kind = "int_width"
    /\ Return("upper_hex_zeropad", Ok(upper_hex_zeropad(input.N, input.ty, input.n)))

Call_chunk_join ==
    /\ call = "none"
    /\ input.kind = "text"
    /\ Return("chunk_join", chunk_join(input.string, input.chunk_size, input.separator))

Next ==
    \/ Call_octal
    \/ Call_binary
    \/ Call_binary_zero_pad
    \/ Call_binary_pad
    \/ Call_lower_hex_pad
    \/ Call_upper_hex_pad
    \/ Call_lower_hex_zeropad
    \/ Call_upper_hex_zeropad
    \/ Call_chunk_join

Spec == Init /\ [][Next]_vars

\* ------------------------------------------------------------------------
\* Definitions the properties are stated with
\* ------------------------------------------------------------------------

\* The digits of a radix, in the case asked for.
DigitTable(upper) ==
    IF upper
    THEN <<"0", "1", "2", "3", "4", "5", "6", "7", "8", "9", "A", "B", "C", "D", "E", "F">>
    ELSE <<"0", "1", "2", "3", "4", "5", "6", "7", "8", "9", "a", "b", "c", "d", "e", "f">>

RECURSIVE NumDigits(_, _)
NumDigits(r, u) == IF u < r THEN 1 ELSE 1 + NumDigits(r, u \div r)

\* The positional notation of u >= 0 in radix r: digit i from the left is
\* the coefficient of r^(L-i).
Positional(r, upper, u) ==
    LET L == NumDigits(r, u)
    IN  [i \in 1..L |-> DigitTable(upper)[((u \div Pow(r, L - i)) % r) + 1]]

\* The value of a digit string in radix r (no digit is checked here).
RECURSIVE ValueOf(_, _, _)
ValueOf(r, upper, ds) ==
    IF ds = <<>> THEN 0
    ELSE r * ValueOf(r, upper, SubSeq(ds, 1, Len(ds) - 1))
         + ((CHOOSE i \in 1..16 : DigitTable(upper)[i] = ds[Len(ds)]) - 1)

IsDigitString(r, upper, ds) ==
    \A i \in 1..Len(ds) : \E d \in 1..r : DigitTable(upper)[d] = ds[i]

\* A string without its leading characters c.
RECURSIVE TrimStart(_, _)
TrimStart(ds, c) ==
    IF ds /= <<>> /\ Head(ds) = c THEN TrimStart(Tail(ds), c) ELSE ds

\* The radix, case and fill character of each function of the spec's table.
Radix(fn) ==
    CASE fn \in {"binary", "binary_zero_pad", "binary_pad"} -> 2
      [] fn = "octal" -> 8
      [] OTHER -> 16

Upper(fn) == fn \in {"upper_hex_pad", "upper_hex_zeropad"}

FillChar(fn) ==
    IF fn \in {"binary_zero_pad", "lower_hex_zeropad", "upper_hex_zeropad"} THEN "0" ELSE " "

RadixFns == {"octal", "binary"}

PaddedFns ==
    {"binary_zero_pad", "binary_pad", "lower_hex_pad", "upper_hex_pad",
     "lower_hex_zeropad", "upper_hex_zeropad"}

\* The width a call was given: padded functions only.
WidthOf == IF input.kind = "int_width" THEN input.N ELSE 0

\* ------------------------------------------------------------------------
\* Properties
\* ------------------------------------------------------------------------

\* C1: binary_zero_pad with width w applied to n returns a string over '0'
\* and '1' of length exactly max(w, length of binary(n)); its digits, read
\* as a binary number, are the bit pattern of n in the type's width B: they
\* are below 2^B and, taken as a B-bit two's-complement pattern (as they
\* stand for an unsigned type), have the value n.
C1_BinaryZeroPad ==
    call = "binary_zero_pad" =>
        LET out == result.value
            B == input.ty.bits
        IN  /\ result.status = "ok"
            /\ \A i \in 1..Len(out) : out[i] \in {"0", "1"}
            /\ Len(out) = Max(input.N, Len(binary(input.ty, input.n)))
            /\ LET u == ValueOf(2, FALSE, out)
               IN  /\ u < Pow(2, B)
                   /\ input.n = IF input.ty.signed /\ u >= Pow(2, B - 1)
                                THEN u - Pow(2, B) ELSE u

\* A negative value zero-padded beyond the width of its type.
C1_Witness ==
    /\ call = "binary_zero_pad"
    /\ input.n < 0
    /\ input.N > input.ty.bits
    /\ Len(result.value) = input.N
    /\ result.value[1] = "0"

\* C2: each of the six padded functions returns the unpadded rendering of
\* the value in its radix and case, preceded by exactly max(0, w - L) copies
\* of its fill character, L being the length of the unpadded rendering: it
\* never truncates, has length w when L < w and is the unpadded rendering
\* when L >= w (so when w = 0).
C2_Padding ==
    call \in PaddedFns =>
        LET out == result.value
            U == Positional(Radix(call), Upper(call), as_unsigned(input.ty, input.n))
            L == Len(U)
        IN  /\ result.status = "ok"
            /\ out = Fill(FillChar(call), Max(0, input.N - L)) \o U
            /\ L < input.N => Len(out) = input.N
            /\ L >= input.N => out = U

\* A space-padded upper case rendering with letters in it.
C2_Witness ==
    /\ call = "upper_hex_pad"
    /\ input.n = 171
    /\ input.N = 4
    /\ result.value = <<" ", " ", "A", "B">>

\* C3: for a negative n of a signed type of B bits, binary, octal and every
\* hex function render the unsigned value n + 2^B: the output holds no '-',
\* it ends with the digits of n + 2^B with only fill before them, and
\* binary(n) has exactly B characters, the first a '1'.
C3_TwosComplement ==
    (call \in RadixFns \cup PaddedFns /\ input.ty.signed /\ input.n < 0) =>
        LET out == result.value
            B == input.ty.bits
            U == Positional(Radix(call), Upper(call), input.n + Pow(2, B))
        IN  /\ result.status = "ok"
            /\ \A i \in 1..Len(out) : out[i] /= "-"
            /\ Len(out) = Max(WidthOf, Len(U))
            /\ SubSeq(out, Len(out) - Len(U) + 1, Len(out)) = U
            /\ \A i \in 1..(Len(out) - Len(U)) : out[i] = FillChar(call)
            /\ call = "binary" => (Len(out) = B /\ out[1] = "1")

\* octal(-1) of an i8 is 377.
C3_Witness ==
    /\ call = "octal"
    /\ input.ty = [signed |-> TRUE, bits |-> 8]
    /\ input.n = 0 - 1
    /\ result.value = <<"3", "7", "7">>

\* C6: binary_pad with width w applied to n, with its leading spaces
\* removed, equals binary(n); binary_pad with width 3 over 0..7 yields
\* "  0", "  1", " 10", " 11", "100", "101", "110", "111".
C6_BinaryPadTrim ==
    call = "binary_pad" =>
        /\ result.status = "ok"
        /\ TrimStart(result.value, " ") = binary(input.ty, input.n)
        /\ (input.N = 3 /\ input.n \in 0..7) =>
              result.value =
                 << <<" ", " ", "0">>, <<" ", " ", "1">>, <<" ", "1", "0">>,
                    <<" ", "1", "1">>, <<"1", "0", "0">>, <<"1", "0", "1">>,
                    <<"1", "1", "0">>, <<"1", "1", "1">> >>[input.n + 1]

\* binary_pad with width 3 of 2 is " 10".
C6_Witness ==
    /\ call = "binary_pad"
    /\ input.N = 3
    /\ input.n = 2
    /\ result.value = <<" ", "1", "0">>

\* C7: for n >= 0 every radix function writes only digits of its radix and
\* case after its fill (no prefix), the digits have the value n, and the
\* unpadded functions write no leading zero except the single digit of 0;
\* octal(8) = "10", binary(8) = "1000", upper_hex_zeropad 2 of 255 = "FF",
\* lower_hex_zeropad 2 of 10 = "0a".
C7_NonNegative ==
    (call \in RadixFns \cup PaddedFns /\ input.n >= 0) =>
        LET out == result.value
            ds == IF FillChar(call) = " " THEN TrimStart(out, " ") ELSE out
        IN  /\ result.status = "ok"
            /\ ds /= <<>>
            /\ IsDigitString(Radix(call), Upper(call), ds)
            /\ ValueOf(Radix(call), Upper(call), ds) = input.n
            /\ call \in RadixFns => (Len(out) = 1 \/ out[1] /= "0")
            /\ (call = "octal" /\ input.n = 8) => out = <<"1", "0">>
            /\ (call = "binary" /\ input.n = 8) => out = <<"1", "0", "0", "0">>
            /\ (call = "upper_hex_zeropad" /\ input.N = 2 /\ input.n = 255)
                  => out = <<"F", "F">>
            /\ (call = "lower_hex_zeropad" /\ input.N = 2 /\ input.n = 10)
                  => out = <<"0", "a">>

\* lower_hex_zeropad with width 2 of 10 is "0a".
C7_Witness ==
    /\ call = "lower_hex_zeropad"
    /\ input.N = 2
    /\ input.n = 10
    /\ result.value = <<"0", "a">>

\* The number of characters of a str: its bytes that are not continuation
\* bytes (10xxxxxx).
CharCount(s) == Cardinality({ i \in 1..Len(s) : s[i] < 128 \/ s[i] >= 192 })

\* ceil(a / b)
CeilDiv(a, b) == (a + b - 1) \div b

\* The characters cs in groups of k with the characters sp between adjacent
\* groups, position by position: every block of k + Len(sp) positions holds
\* k characters of cs and then sp; the last group holds what is left.
Grouped(cs, k, sp) ==
    LET L == Len(cs)
        S == Len(sp)
    IN  [p \in 1..(L + S * Max(0, CeilDiv(L, k) - 1)) |->
            LET blk == (p - 1) \div (k + S)
                off == (p - 1) % (k + S)
            IN  IF off < k THEN cs[blk * k + off + 1] ELSE sp[off - k + 1]]

\* A call of chunk_join within its documented domain.
ChunkJoinInDomain ==
    /\ call = "chunk_join"
    /\ input.chunk_size >= 1
    /\ Len(input.separator) > 0

\* C4: for chunk_size >= 1 and a non-empty separator, chunk_join returns the
\* characters of text in consecutive groups of exactly chunk_size characters
\* (the last group the 1..chunk_size left), in order, with separator between
\* adjacent groups and none before the first or after the last;
\* chunk_join("FEEDC0FFEE", 2, " ") is "FE ED C0 FF EE".
C4_ChunkJoin ==
    ChunkJoinInDomain =>
        /\ result.status = "ok"
        /\ result.value =
              str(Grouped(chars(input.string), input.chunk_size, chars(input.separator)))
        /\ (input.string = FEEDC0FFEE /\ input.chunk_size = 2 /\ input.separator = <<32>>)
              => result.value = <<70, 69, 32, 69, 68, 32, 67, 48, 32, 70, 70, 32, 69, 69>>

\* chunk_join("FEEDC0FFEE", 2, " ") has returned "FE ED C0 FF EE".
C4_Witness ==
    /\ call = "chunk_join"
    /\ input.string = FEEDC0FFEE
    /\ input.chunk_size = 2
    /\ input.separator = <<32>>
    /\ result = Ok(<<70, 69, 32, 69, 68, 32, 67, 48, 32, 70, 70, 32, 69, 69>>)

\* C5: chunk_join called with an empty separator panics at its own assert
\* and returns no string, for every text and every chunk_size: for a
\* non-empty text, for the empty text and for chunk_size = 0 (the assert
\* comes before the chunking, so it is not the chunking that fails).
C5_EmptySeparatorPanics ==
    (call = "chunk_join" /\ Len(input.separator) = 0) =>
        /\ result.status = "panic"
        /\ result = SeparatorAssert

\* The empty text, chunk_size 0 and the empty separator: the separator's
\* assert fired.
C5_Witness ==
    /\ call = "chunk_join"
    /\ input.string = <<>>
    /\ input.chunk_size = 0
    /\ input.separator = <<>>
    /\ result = SeparatorAssert

\* C9: chunk_join checks nothing but the separator: it panics at its own
\* assert exactly when the separator is empty, and a call with
\* chunk_size = 0 and a non-empty separator ends as the chunking primitive
\* ends for size 0.
C9_ChunkSizeNotValidated ==
    call = "chunk_join" =>
        /\ (result = SeparatorAssert) <=> (Len(input.separator) = 0)
        /\ (input.chunk_size = 0 /\ Len(input.separator) > 0)
              => result = chunks(chars(input.string), 0)

\* chunk_size 0 with a separator: the outcome is the primitive's.
C9_Witness ==
    /\ call = "chunk_join"
    /\ input.chunk_size = 0
    /\ Len(input.separator) > 0
    /\ Len(input.string) > 0
    /\ result /= SeparatorAssert
    /\ result.status = "panic"

\* C10: for a text of L characters, chunk_size k >= 1 and a separator of
\* S >= 1 characters, the output has L + S * max(0, ceil(L / k) - 1)
\* characters; character j of text is character j + S * floor((j - 1) / k)
\* of the output (deleting the separators at the group boundaries gives text
\* back); the output is text when L <= k and empty when text is empty.
\* Lengths are in characters, not bytes.
C10_NothingLost ==
    ChunkJoinInDomain =>
        LET k == input.chunk_size
            L == CharCount(input.string)
            S == CharCount(input.separator)
        IN  /\ result.status = "ok"
            /\ CharCount(result.value) = L + S * Max(0, CeilDiv(L, k) - 1)
            /\ LET cs == chars(input.string)
                   out == chars(result.value)
               IN  /\ Len(cs) = L
                   /\ Len(out) = CharCount(result.value)
                   /\ \A j \in 1..L : out[j + S * ((j - 1) \div k)] = cs[j]
            /\ L <= k => result.value = input.string
            /\ input.string = <<>> => result.value = <<>>

\* Three characters of 2, 3 and 4 bytes in groups of 2 with ", " between:
\* the output has 5 characters in 11 bytes.
C10_Witness ==
    /\ call = "chunk_join"
    /\ input.string = str(<<233, 8364, 128512>>)
    /\ input.chunk_size = 2
    /\ input.separator = <<44, 32>>
    /\ result.status = "ok"
    /\ CharCount(result.value) = 5
    /\ Len(result.value) = 11

====
